---- MODULE Spec2Model ----
(***************************************************************************)
(* Model of the two spinning mutual-exclusion primitives of bt2_locks:     *)
(* mcs_lock (queue lock, one thread_local node per thread) and spin_lock   *)
(* (test-and-set flag with cpu_backoff).  Every atomic access of the code  *)
(* is one step of the thread that performs it; steps of different threads  *)
(* interleave (sequentially consistent memory).  A spin_while_eq loop is   *)
(* the step of the read that leaves it: the reads that stay in the loop    *)
(* change nothing.  The loop of spin_lock::lock keeps its two steps, the   *)
(* test_and_set, which writes the flag, and the pause.                     *)
(* Two clients use the locks: the bounded one, in which nrun threads each  *)
(* run cycles times  lock(); c = counter; counter = c + 1; unlock(),  and  *)
(* the endless one, in which every thread runs forever                     *)
(* lock(); ++inside; --inside; unlock().                                   *)
(***************************************************************************)
EXTENDS Integers, Sequences, FiniteSets, TLC

NThreads == 3   \* threads
MaxIter  == 2   \* cycles per thread of the bounded client
MaxWork  == 6   \* cycles of all threads of the bounded client together

Threads == 1..NThreads
Null    == 0
\* a node is named by the thread that owns it (thread_local mcs_node node)
Nodes   == Threads

VARIABLES
    kind,      \* which primitive guards the section: "mcs" or "spin"
    work,      \* which client runs: "bounded", "forever", or a misuse client ("recursive", "rogue", "nested")
    nrun,      \* the threads 1..nrun run the client
    cycles,    \* the cycles each thread of the bounded client performs
    pc,        \* pc[t]: the line of the code thread t executes next
    iter,      \* iter[t]: lock/unlock cycles thread t has completed
    q,         \* mcs_lock::q, the shared tail
    next,      \* next[n]: mcs_node::next of node n
    unlocked,  \* unlocked[n]: mcs_node::unlocked of node n (the "ready" flag)
    pred,      \* pred[t]: the local pred of t's lock() call
    flag,      \* spin_lock::flag
    counter,   \* the shared counter of the bounded client
    inside,    \* the number of threads the endless client counts inside the section
    tmp,       \* tmp[t]: the counter value t read inside the section
    order,     \* history: threads between their tail exchange and the end of their unlock(), in exchange order
    slow,      \* history: slow[t] iff t is in an unlock() whose compare-and-swap has failed
    nextEp,    \* history: the cycle (1, 2, ...) of n's owner in which the link in next[n] was written, 0 if next[n] is unset
    readyEp,   \* history: the cycle of n's owner in which unlocked[n] was set true, 0 if it is false
    victim,    \* the thread an adversarial scheduler starves, Null if the schedule is free
    q2,        \* the tail q of a second mcs_lock object
    sync,      \* happens-before: sync[t] = the threads whose latest call of unlock() happens-before the point t is at
    relQ,      \* happens-before: the threads whose latest call of unlock() happens-before the release sequence q holds
    relN,      \* the same for the value of next[n]
    relU,      \* the same for the value of unlocked[n]
    last       \* history: the thread that called unlock() most recently, Null if none has

vars == <<kind, work, nrun, cycles, pc, iter, q, next, unlocked, pred, flag, counter, inside,
          tmp, order, slow, nextEp, readyEp, victim, q2, sync, relQ, relN, relU, last>>

hbVars   == <<sync, relQ, relN, relU, last>>
auxVars  == <<victim, q2, hbVars>>

mcsVars  == <<q, next, unlocked, pred, order, slow, nextEp, readyEp>>

Remove(s, t) == SelectSeq(s, LAMBDA x : x # t)

\* the first line of lock() and of unlock() for the primitive in use
Entry == IF kind = "mcs" THEN "l6" ELSE "s33"
Exit  == IF work = "nested" THEN "bu18" ELSE IF kind = "mcs" THEN "u18" ELSE "s38"
\* the first step of the client's section
Section == IF work = "bounded" THEN "csr" ELSE IF work = "nested" THEN "b6" ELSE "cse"

\* the locks and the nodes after construction, no cycle performed
Fresh ==
    /\ iter = [t \in Threads |-> 0]
    /\ q = Null
    /\ next = [n \in Nodes |-> Null]
    /\ unlocked = [n \in Nodes |-> FALSE]
    /\ pred = [t \in Threads |-> Null]
    /\ flag = FALSE
    /\ counter = 0
    /\ inside = 0
    /\ tmp = [t \in Threads |-> 0]
    /\ order = <<>>
    /\ slow = [t \in Threads |-> FALSE]
    /\ nextEp = [n \in Nodes |-> 0]
    /\ readyEp = [n \in Nodes |-> 0]
    /\ q2 = Null
    /\ sync = [t \in Threads |-> {}]
    /\ relQ = {}
    /\ relN = [n \in Nodes |-> {}]
    /\ relU = [n \in Nodes |-> {}]
    /\ last = Null

Init ==
    /\ kind \in {"mcs", "spin"}
    /\ work \in {"bounded", "forever"}
    /\ nrun \in 1..NThreads
    /\ cycles \in 0..MaxIter
    /\ IF work = "bounded"
       THEN cycles >= 1 /\ nrun * cycles <= MaxWork
       ELSE cycles = 0 /\ nrun = NThreads
    /\ pc = [t \in Threads |-> IF t > nrun THEN "done"
                                ELSE IF kind = "mcs" THEN "l6" ELSE "s33"]
    /\ Fresh
    /\ victim = Null

\* unlock() returns: the cycle is complete, the thread starts the next one or stops
Return(t) ==
    IF work = "bounded"
    THEN /\ iter' = [iter EXCEPT ![t] = @ + 1]
         /\ pc' = [pc EXCEPT ![t] = IF iter[t] + 1 < cycles THEN Entry ELSE "done"]
    ELSE /\ iter' = iter
         /\ pc' = [pc EXCEPT ![t] = Entry]

(************************* mcs_lock::lock ********************************)
\* mutant: the link is not reset at the start of lock()
L6_NoReset(t) ==
    /\ pc[t] = "l6"
    /\ pc' = [pc EXCEPT ![t] = "l7"]
    /\ UNCHANGED <<auxVars, kind, work, nrun, cycles, inside, iter, q, next, unlocked, pred, flag, counter, tmp,
                   order, slow, nextEp, readyEp>>

\* node.next = nullptr;
L6(t) ==
    /\ pc[t] = "l6"
    /\ next' = [next EXCEPT ![t] = Null]
    /\ nextEp' = [nextEp EXCEPT ![t] = 0]
    /\ pc' = [pc EXCEPT ![t] = "l7"]
    /\ UNCHANGED <<auxVars, kind, work, nrun, cycles, inside, iter, q, unlocked, pred, flag, counter, tmp,
                   order, slow, readyEp>>

\* mutant: the ready flag is not reset at the start of lock()
L7_NoReset(t) ==
    /\ pc[t] = "l7"
    /\ pc' = [pc EXCEPT ![t] = "l9"]
    /\ UNCHANGED <<auxVars, kind, work, nrun, cycles, inside, iter, q, next, unlocked, pred, flag, counter, tmp,
                   order, slow, nextEp, readyEp>>

\* node.unlocked = false;
L7(t) ==
    /\ pc[t] = "l7"
    /\ unlocked' = [unlocked EXCEPT ![t] = FALSE]
    /\ readyEp' = [readyEp EXCEPT ![t] = 0]
    /\ pc' = [pc EXCEPT ![t] = "l9"]
    /\ UNCHANGED <<auxVars, kind, work, nrun, cycles, inside, iter, q, next, pred, flag, counter, tmp,
                   order, slow, nextEp>>

\* mcs_node *pred = q.exchange(&node); if (pred) ...
L9(t) ==
    /\ pc[t] = "l9"
    /\ pred' = [pred EXCEPT ![t] = q]
    /\ q' = t
    /\ pc' = [pc EXCEPT ![t] = IF q # Null THEN "l11" ELSE "l14"]
    /\ order' = Append(order, t)
    /\ UNCHANGED <<auxVars, kind, work, nrun, cycles, inside, iter, next, unlocked, flag, counter, tmp,
                   slow, nextEp, readyEp>>

\* mutant: the new node is never linked behind its predecessor
L11_NoLink(t) ==
    /\ pc[t] = "l11"
    /\ pc' = [pc EXCEPT ![t] = "l12"]
    /\ UNCHANGED <<auxVars, kind, work, nrun, cycles, inside, iter, q, next, unlocked, pred, flag, counter, tmp,
                   order, slow, nextEp, readyEp>>

\* mutant: the link is stored into the wrong field, pred->unlocked = &node
L11_WrongField(t) ==
    /\ pc[t] = "l11"
    /\ unlocked' = [unlocked EXCEPT ![pred[t]] = TRUE]
    /\ readyEp' = [readyEp EXCEPT ![pred[t]] = iter[pred[t]] + 1]
    /\ pc' = [pc EXCEPT ![t] = "l12"]
    /\ UNCHANGED <<auxVars, kind, work, nrun, cycles, inside, iter, q, next, pred, flag, counter, tmp,
                   order, slow, nextEp>>

\* pred->next = &node;
L11(t) ==
    /\ pc[t] = "l11"
    /\ next' = [next EXCEPT ![pred[t]] = t]
    /\ nextEp' = [nextEp EXCEPT ![pred[t]] = iter[pred[t]] + 1]
    /\ pc' = [pc EXCEPT ![t] = "l12"]
    /\ UNCHANGED <<auxVars, kind, work, nrun, cycles, inside, iter, q, unlocked, pred, flag, counter, tmp,
                   order, slow, readyEp>>

\* mutant: the wait tests the wrong value, spin_while_eq(node.unlocked, true)
L12_Inverted(t) ==
    /\ pc[t] = "l12"
    /\ unlocked[t] # TRUE
    /\ pc' = [pc EXCEPT ![t] = "l14"]
    /\ UNCHANGED <<auxVars, kind, work, nrun, cycles, inside, iter, q, next, unlocked, pred, flag, counter, tmp,
                   order, slow, nextEp, readyEp>>

\* spin_while_eq(node.unlocked, false): the loop is left by the read that sees true
L12(t) ==
    /\ pc[t] = "l12"
    /\ unlocked[t] # FALSE
    /\ pc' = [pc EXCEPT ![t] = "l14"]
    /\ UNCHANGED <<auxVars, kind, work, nrun, cycles, inside, iter, q, next, unlocked, pred, flag, counter, tmp,
                   order, slow, nextEp, readyEp>>

\* node.unlocked.load(std::memory_order_acquire); and lock() returns
L14(t) ==
    /\ pc[t] = "l14"
    /\ pc' = [pc EXCEPT ![t] = Section]
    /\ pred' = [pred EXCEPT ![t] = Null]
    /\ UNCHANGED <<auxVars, kind, work, nrun, cycles, inside, iter, q, next, unlocked, flag, counter, tmp,
                   order, slow, nextEp, readyEp>>

(************************* mcs_lock::unlock ******************************)
\* if (!node.next)
U18(t) ==
    /\ pc[t] = "u18"
    /\ slow' = [slow EXCEPT ![t] = FALSE]
    /\ pc' = [pc EXCEPT ![t] = IF next[t] = Null THEN "u20" ELSE "u26"]
    /\ UNCHANGED <<auxVars, kind, work, nrun, cycles, inside, iter, q, next, unlocked, pred, flag, counter, tmp,
                   order, nextEp, readyEp>>

\* mutant: unlock() returns after the compare-and-swap whether or not it succeeded
U20_NoWait(t) ==
    /\ pc[t] = "u20"
    /\ q' = IF q = t THEN Null ELSE q
    /\ order' = Remove(order, t)
    /\ Return(t)
    /\ UNCHANGED <<auxVars, kind, work, nrun, cycles, inside, next, unlocked, pred, flag, counter, tmp,
                   slow, nextEp, readyEp>>

\* mutant: the tail is cleared by a plain store, q.store(nullptr); return;
U20_Store(t) ==
    /\ pc[t] = "u20"
    /\ q' = Null
    /\ order' = Remove(order, t)
    /\ Return(t)
    /\ UNCHANGED <<auxVars, kind, work, nrun, cycles, inside, next, unlocked, pred, flag, counter, tmp,
                   slow, nextEp, readyEp>>

\* mutant: the return after the successful compare-and-swap is missing
U20_FallThrough(t) ==
    /\ pc[t] = "u20"
    /\ q' = IF q = t THEN Null ELSE q
    /\ slow' = [slow EXCEPT ![t] = (q # t)]
    /\ pc' = [pc EXCEPT ![t] = "u24"]
    /\ UNCHANGED <<auxVars, kind, work, nrun, cycles, inside, iter, next, unlocked, pred, flag, counter, tmp,
                   order, nextEp, readyEp>>

\* if (q.compare_exchange_strong(node_ptr, nullptr)) return;
U20(t) ==
    /\ pc[t] = "u20"
    /\ IF q = t
       THEN /\ q' = Null
            /\ order' = Remove(order, t)
            /\ Return(t)
            /\ UNCHANGED slow
       ELSE /\ slow' = [slow EXCEPT ![t] = TRUE]
            /\ pc' = [pc EXCEPT ![t] = "u24"]
            /\ UNCHANGED <<q, order, iter>>
    /\ UNCHANGED <<auxVars, kind, work, nrun, cycles, inside, next, unlocked, pred, flag, counter, tmp,
                   nextEp, readyEp>>

\* spin_while_eq(node.next, nullptr): the loop is left by the read that sees a link
U24(t) ==
    /\ pc[t] = "u24"
    /\ next[t] # Null
    /\ pc' = [pc EXCEPT ![t] = "u26"]
    /\ UNCHANGED <<auxVars, kind, work, nrun, cycles, inside, iter, q, next, unlocked, pred, flag, counter, tmp,
                   order, slow, nextEp, readyEp>>

\* mutant: the hand-off wakes the node at the tail instead of the successor
U26_WakeTail(t) ==
    /\ pc[t] = "u26"
    /\ q # Null
    /\ unlocked' = [unlocked EXCEPT ![q] = TRUE]
    /\ readyEp' = [readyEp EXCEPT ![q] = iter[q] + 1]
    /\ order' = Remove(order, t)
    /\ slow' = [slow EXCEPT ![t] = FALSE]
    /\ Return(t)
    /\ UNCHANGED <<auxVars, kind, work, nrun, cycles, inside, q, next, pred, flag, counter, tmp, nextEp>>

\* node.next->unlocked.store(true); and unlock() returns
U26(t) ==
    /\ pc[t] = "u26"
    /\ next[t] # Null    \* nullptr->unlocked is not modelled: the thread stops
    /\ unlocked' = [unlocked EXCEPT ![next[t]] = TRUE]
    /\ readyEp' = [readyEp EXCEPT ![next[t]] = iter[next[t]] + 1]
    /\ order' = Remove(order, t)
    /\ slow' = [slow EXCEPT ![t] = FALSE]
    /\ Return(t)
    /\ UNCHANGED <<auxVars, kind, work, nrun, cycles, inside, q, next, pred, flag, counter, tmp, nextEp>>

(***************************** spin_lock *********************************)
\* mutant: the loop condition is negated, while (!flag.test_and_set())
S33_Inverted(t) ==
    /\ pc[t] = "s33"
    /\ flag' = TRUE
    /\ pc' = [pc EXCEPT ![t] = IF flag THEN Section ELSE "s34"]
    /\ UNCHANGED <<auxVars, kind, work, nrun, cycles, inside, iter, counter, tmp>>
    /\ UNCHANGED mcsVars

\* mutant: the flag is tested once, not in a loop
S33_Once(t) ==
    /\ pc[t] = "s33"
    /\ flag' = TRUE
    /\ pc' = [pc EXCEPT ![t] = Section]
    /\ UNCHANGED <<auxVars, kind, work, nrun, cycles, inside, iter, counter, tmp>>
    /\ UNCHANGED mcsVars

\* while (flag.test_and_set(std::memory_order_acquire))
S33(t) ==
    /\ pc[t] = "s33"
    /\ flag' = TRUE
    /\ pc' = [pc EXCEPT ![t] = IF flag THEN "s34" ELSE Section]
    /\ UNCHANGED <<auxVars, kind, work, nrun, cycles, inside, iter, counter, tmp>>
    /\ UNCHANGED mcsVars

\* backoff.pause();
S34(t) ==
    /\ pc[t] = "s34"
    /\ pc' = [pc EXCEPT ![t] = "s33"]
    /\ UNCHANGED <<auxVars, kind, work, nrun, cycles, inside, iter, flag, counter, tmp>>
    /\ UNCHANGED mcsVars

\* mutant: unlock() leaves the flag set
S38_NoClear(t) ==
    /\ pc[t] = "s38"
    /\ Return(t)
    /\ UNCHANGED <<auxVars, kind, work, nrun, cycles, inside, flag, counter, tmp>>
    /\ UNCHANGED mcsVars

\* flag.clear(std::memory_order_release);
S38(t) ==
    /\ pc[t] = "s38"
    /\ flag' = FALSE
    /\ Return(t)
    /\ UNCHANGED <<auxVars, kind, work, nrun, cycles, inside, counter, tmp>>
    /\ UNCHANGED mcsVars

(************************* the guarded section ***************************)
\* c = counter
CsRead(t) ==
    /\ pc[t] = "csr"
    /\ tmp' = [tmp EXCEPT ![t] = counter]
    /\ pc' = [pc EXCEPT ![t] = "csw"]
    /\ UNCHANGED <<auxVars, kind, work, nrun, cycles, inside, iter, flag, counter>>
    /\ UNCHANGED mcsVars

\* counter = c + 1, then unlock() is called
CsWrite(t) ==
    /\ pc[t] = "csw"
    /\ counter' = tmp[t] + 1
    /\ tmp' = [tmp EXCEPT ![t] = 0]
    /\ pc' = [pc EXCEPT ![t] = Exit]
    /\ UNCHANGED <<auxVars, kind, work, nrun, cycles, inside, iter, flag>>
    /\ UNCHANGED mcsVars

\* ++inside
CsEnter(t) ==
    /\ pc[t] = "cse"
    /\ inside' = inside + 1
    /\ pc' = [pc EXCEPT ![t] = "csl"]
    /\ UNCHANGED <<auxVars, kind, work, nrun, cycles, iter, flag, counter, tmp>>
    /\ UNCHANGED mcsVars

\* --inside, then unlock() is called
CsLeave(t) ==
    /\ pc[t] = "csl"
    /\ inside' = inside - 1
    /\ pc' = [pc EXCEPT ![t] = Exit]
    /\ UNCHANGED <<auxVars, kind, work, nrun, cycles, iter, flag, counter, tmp>>
    /\ UNCHANGED mcsVars

McsStep(t) ==
    \/ L6(t) \/ L7(t) \/ L9(t) \/ L11(t) \/ L12(t) \/ L14(t)
    \/ U18(t) \/ U20(t) \/ U24(t) \/ U26(t)

SpinStep(t) == S33(t) \/ S34(t) \/ S38(t)

BoundedStep(t) == CsRead(t) \/ CsWrite(t)

ForeverStep(t) == CsEnter(t) \/ CsLeave(t)

Step(t) == McsStep(t) \/ SpinStep(t) \/ BoundedStep(t) \/ ForeverStep(t)

Next == \E t \in Threads : Step(t)

Spec == Init /\ [][Next]_vars

\* The endless client on the MCS lock; every thread that can take a step
\* eventually takes one.
McsInit == Init /\ kind = "mcs" /\ work = "forever"
McsThread(t) == McsStep(t) \/ ForeverStep(t)
McsNext == \E t \in Threads : McsThread(t)
McsFairSpec == McsInit /\ [][McsNext]_vars /\ \A t \in Threads : WF_vars(McsThread(t))

\* The bounded client on the spinlock, with the same fairness.
SpinInit == Init /\ kind = "spin" /\ work = "bounded"
SpinThread(t) == SpinStep(t) \/ BoundedStep(t)
SpinNext == \E t \in Threads : SpinThread(t)
SpinFairSpec == SpinInit /\ [][SpinNext]_vars /\ \A t \in Threads : WF_vars(SpinThread(t))

\* Misuse: the endless client on the MCS lock, in which a thread inside the
\* section may call lock() again.
\* lock() is called by the holder
Relock(t) ==
    /\ work = "recursive"
    /\ pc[t] = "cse"
    /\ pc' = [pc EXCEPT ![t] = "l6"]
    /\ UNCHANGED <<auxVars, kind, work, nrun, cycles, inside, iter, flag, counter, tmp>>
    /\ UNCHANGED mcsVars

RecInit ==
    /\ kind = "mcs" /\ work = "recursive" /\ nrun = NThreads /\ cycles = 0
    /\ pc = [t \in Threads |-> "l6"]
    /\ Fresh
    /\ victim = Null
RecThread(t) == McsStep(t) \/ ForeverStep(t) \/ Relock(t)
RecNext == \E t \in Threads : RecThread(t)
RecSpec == RecInit /\ [][RecNext]_vars

\* Misuse: the endless client on the spinlock, in which a thread that does
\* not hold the lock may call unlock().
\* unlock() is called by a thread about to call lock()
CallUnlock(t) ==
    /\ work = "rogue"
    /\ pc[t] = "s33"
    /\ pc' = [pc EXCEPT ![t] = "r38"]
    /\ UNCHANGED <<auxVars, kind, work, nrun, cycles, inside, iter, flag, counter, tmp>>
    /\ UNCHANGED mcsVars

\* mutant: unlock() leaves the flag alone when the caller is not the holder
S38Rogue_Checked(t) ==
    /\ pc[t] = "r38"
    /\ pc' = [pc EXCEPT ![t] = "s33"]
    /\ UNCHANGED <<auxVars, kind, work, nrun, cycles, inside, iter, flag, counter, tmp>>
    /\ UNCHANGED mcsVars

\* flag.clear(std::memory_order_release); executed by the non-holder, which
\* then goes on to call lock()
S38Rogue(t) ==
    /\ pc[t] = "r38"
    /\ flag' = FALSE
    /\ pc' = [pc EXCEPT ![t] = "s33"]
    /\ UNCHANGED <<auxVars, kind, work, nrun, cycles, inside, iter, counter, tmp>>
    /\ UNCHANGED mcsVars

RogueInit ==
    /\ kind = "spin" /\ work = "rogue" /\ nrun = NThreads /\ cycles = 0
    /\ pc = [t \in Threads |-> "s33"]
    /\ Fresh
    /\ victim = Null
RogueThread(t) == SpinStep(t) \/ ForeverStep(t) \/ CallUnlock(t) \/ S38Rogue(t)
RogueNext == \E t \in Threads : RogueThread(t)
RogueSpec == RogueInit /\ [][RogueNext]_vars

\* The endless client on the spinlock under a scheduler that runs the
\* test_and_set of one thread, the victim, only while the flag is set.  Each
\* step is a step of Next, so each behaviour is one of the program.
\* The scheduler is fair: a thread that can step does so eventually, the
\* victim as often as the flag is set at its test_and_set.
VictimS33(t) == t = victim /\ flag /\ S33(t)
OtherS33(t) == t # victim /\ S33(t)

StarveInit ==
    /\ kind = "spin" /\ work = "forever" /\ cycles = 0
    /\ nrun \in 2..NThreads
    /\ victim \in 1..nrun
    /\ pc = [t \in Threads |-> IF t > nrun THEN "done" ELSE "s33"]
    /\ Fresh
StarveThread(t) ==
    \/ VictimS33(t) \/ OtherS33(t) \/ S34(t) \/ S38(t)
    \/ CsEnter(t) \/ CsLeave(t)
StarveNext == \E t \in Threads : StarveThread(t)
StarveSpec ==
    /\ StarveInit /\ [][StarveNext]_vars
    /\ \A t \in Threads : WF_vars(StarveThread(t)) /\ SF_vars(VictimS33(t))

(***************** a second mcs_lock object, B, tail q2 *******************)
\* The nested client: A.lock(); B.lock(); section; B.unlock(); A.unlock();
\* A is the lock with tail q, B the lock with tail q2.  The calls on B run
\* the same code on the same thread_local node; their lines are b6 .. bu26.
\* The threads 1..nrun run the nested client; a thread above nrun uses B
\* alone: B.lock(); section; B.unlock();

\* B.unlock() has returned to its caller
AfterB(t) == IF t > nrun THEN "b6" ELSE "ra"

\* B.lock(): node.next = nullptr;
BL6(t) ==
    /\ pc[t] = "b6"
    /\ next' = [next EXCEPT ![t] = Null]
    /\ nextEp' = [nextEp EXCEPT ![t] = 0]
    /\ pc' = [pc EXCEPT ![t] = "b7"]
    /\ UNCHANGED <<hbVars, victim, kind, work, nrun, cycles, inside, iter, flag, counter, tmp, q, order, slow, q2, unlocked, pred, readyEp>>

\* B.lock(): node.unlocked = false;
BL7(t) ==
    /\ pc[t] = "b7"
    /\ unlocked' = [unlocked EXCEPT ![t] = FALSE]
    /\ readyEp' = [readyEp EXCEPT ![t] = 0]
    /\ pc' = [pc EXCEPT ![t] = "b9"]
    /\ UNCHANGED <<hbVars, victim, kind, work, nrun, cycles, inside, iter, flag, counter, tmp, q, order, slow, q2, next, pred, nextEp>>

\* B.lock(): mcs_node *pred = q.exchange(&node); if (pred) ...
BL9(t) ==
    /\ pc[t] = "b9"
    /\ pred' = [pred EXCEPT ![t] = q2]
    /\ q2' = t
    /\ pc' = [pc EXCEPT ![t] = IF q2 # Null THEN "b11" ELSE "b14"]
    /\ UNCHANGED <<hbVars, victim, kind, work, nrun, cycles, inside, iter, flag, counter, tmp, q, order, slow, next, unlocked, nextEp, readyEp>>

\* B.lock(): pred->next = &node;
BL11(t) ==
    /\ pc[t] = "b11"
    /\ next' = [next EXCEPT ![pred[t]] = t]
    /\ nextEp' = [nextEp EXCEPT ![pred[t]] = iter[pred[t]] + 1]
    /\ pc' = [pc EXCEPT ![t] = "b12"]
    /\ UNCHANGED <<hbVars, victim, kind, work, nrun, cycles, inside, iter, flag, counter, tmp, q, order, slow, q2, unlocked, pred, readyEp>>

\* B.lock(): spin_while_eq(node.unlocked, false);
BL12(t) ==
    /\ pc[t] = "b12"
    /\ unlocked[t] # FALSE
    /\ pc' = [pc EXCEPT ![t] = "b14"]
    /\ UNCHANGED <<hbVars, victim, kind, work, nrun, cycles, inside, iter, flag, counter, tmp, q, order, slow, q2, next, unlocked, pred, nextEp, readyEp>>

\* B.lock(): node.unlocked.load(std::memory_order_acquire); and lock() returns
BL14(t) ==
    /\ pc[t] = "b14"
    /\ pc' = [pc EXCEPT ![t] = "cse"]
    /\ pred' = [pred EXCEPT ![t] = Null]
    /\ UNCHANGED <<hbVars, victim, kind, work, nrun, cycles, inside, iter, flag, counter, tmp, q, order, slow, q2, next, unlocked, nextEp, readyEp>>

\* B.unlock(): if (!node.next)
BU18(t) ==
    /\ pc[t] = "bu18"
    /\ pc' = [pc EXCEPT ![t] = IF next[t] = Null THEN "bu20" ELSE "bu26"]
    /\ UNCHANGED <<hbVars, victim, kind, work, nrun, cycles, inside, iter, flag, counter, tmp, q, order, slow, q2, next, unlocked, pred, nextEp, readyEp>>

\* B.unlock(): if (q.compare_exchange_strong(node_ptr, nullptr)) return;
BU20(t) ==
    /\ pc[t] = "bu20"
    /\ q2' = IF q2 = t THEN Null ELSE q2
    /\ pc' = [pc EXCEPT ![t] = IF q2 = t THEN AfterB(t) ELSE "bu24"]
    /\ UNCHANGED <<hbVars, victim, kind, work, nrun, cycles, inside, iter, flag, counter, tmp, q, order, slow, next, unlocked, pred, nextEp, readyEp>>

\* B.unlock(): spin_while_eq(node.next, nullptr);
BU24(t) ==
    /\ pc[t] = "bu24"
    /\ next[t] # Null
    /\ pc' = [pc EXCEPT ![t] = "bu26"]
    /\ UNCHANGED <<hbVars, victim, kind, work, nrun, cycles, inside, iter, flag, counter, tmp, q, order, slow, q2, next, unlocked, pred, nextEp, readyEp>>

\* B.unlock(): node.next->unlocked.store(true); and unlock() returns
BU26(t) ==
    /\ pc[t] = "bu26"
    /\ next[t] # Null
    /\ unlocked' = [unlocked EXCEPT ![next[t]] = TRUE]
    /\ readyEp' = [readyEp EXCEPT ![next[t]] = iter[next[t]] + 1]
    /\ pc' = [pc EXCEPT ![t] = AfterB(t)]
    /\ UNCHANGED <<hbVars, victim, kind, work, nrun, cycles, inside, iter, flag, counter, tmp, q, order, slow, q2, next, pred, nextEp>>

\* the nested client calls A.unlock()
UnlockA(t) ==
    /\ pc[t] = "ra"
    /\ pc' = [pc EXCEPT ![t] = "u18"]
    /\ UNCHANGED <<auxVars, kind, work, nrun, cycles, inside, iter, flag, counter, tmp>>
    /\ UNCHANGED mcsVars

McsStepB(t) ==
    \/ BL6(t) \/ BL7(t) \/ BL9(t) \/ BL11(t) \/ BL12(t) \/ BL14(t)
    \/ BU18(t) \/ BU20(t) \/ BU24(t) \/ BU26(t)

NestInit ==
    /\ kind = "mcs" /\ work = "nested" /\ cycles = 0
    /\ nrun \in 2..NThreads
    /\ pc = [t \in Threads |-> IF t > nrun THEN "b6" ELSE "l6"]
    /\ Fresh
    /\ victim = Null
NestThread(t) == McsStep(t) \/ McsStepB(t) \/ ForeverStep(t) \/ UnlockA(t)
NestNext == \E t \in Threads : NestThread(t)
NestSpec == NestInit /\ [][NestNext]_vars

(************ mcs_lock with the memory orders of its accesses ************)
\* The same code, each access with the ordering the source gives it.  The
\* steps interleave as before; sync, relQ, relN and relU record which calls
\* of unlock() happen-before a thread's position and which a value carries.
\* A release store gives its location the writer's sync; a read-modify-write
\* keeps what the location carried (it continues the release sequence) and,
\* if it is a release, adds the writer's sync; an acquire load adds what the
\* location carries to the reader's sync; a relaxed load adds nothing.
\* Assignment to and conversion from a std::atomic are memory_order_seq_cst.
\* The loads inside spin_while_eq add nothing here: the loop at line 12 is
\* followed by the acquire load of line 14 and the loop at line 24 by the
\* seq_cst load of node.next in line 26, which add all the loop's last load
\* could.

\* node.next = nullptr;  (seq_cst store)
Hb6(t) ==
    /\ pc[t] = "l6"
    /\ next' = [next EXCEPT ![t] = Null]
    /\ relN' = [relN EXCEPT ![t] = sync[t]]
    /\ pc' = [pc EXCEPT ![t] = "l7"]
    /\ UNCHANGED <<victim, q2, kind, work, nrun, cycles, inside, iter, flag, counter, tmp, order, slow, nextEp, readyEp, q, unlocked, pred, sync, relQ, relU, last>>

\* node.unlocked = false;  (seq_cst store)
Hb7(t) ==
    /\ pc[t] = "l7"
    /\ unlocked' = [unlocked EXCEPT ![t] = FALSE]
    /\ relU' = [relU EXCEPT ![t] = sync[t]]
    /\ pc' = [pc EXCEPT ![t] = "l9"]
    /\ UNCHANGED <<victim, q2, kind, work, nrun, cycles, inside, iter, flag, counter, tmp, order, slow, nextEp, readyEp, q, next, pred, sync, relQ, relN, last>>

\* mcs_node *pred = q.exchange(&node, std::memory_order_release); if (pred) ...
\* the read of the exchange is relaxed, its write a release
Hb9(t) ==
    /\ pc[t] = "l9"
    /\ pred' = [pred EXCEPT ![t] = q]
    /\ q' = t
    /\ relQ' = relQ \cup sync[t]
    /\ pc' = [pc EXCEPT ![t] = IF q # Null THEN "l11" ELSE "l14"]
    /\ UNCHANGED <<victim, q2, kind, work, nrun, cycles, inside, iter, flag, counter, tmp, order, slow, nextEp, readyEp, next, unlocked, sync, relN, relU, last>>

\* pred->next = &node;  (seq_cst store)
Hb11(t) ==
    /\ pc[t] = "l11"
    /\ next' = [next EXCEPT ![pred[t]] = t]
    /\ relN' = [relN EXCEPT ![pred[t]] = sync[t]]
    /\ pc' = [pc EXCEPT ![t] = "l12"]
    /\ UNCHANGED <<victim, q2, kind, work, nrun, cycles, inside, iter, flag, counter, tmp, order, slow, nextEp, readyEp, q, unlocked, pred, sync, relQ, relU, last>>

\* spin_while_eq(node.unlocked, false);
Hb12(t) ==
    /\ pc[t] = "l12"
    /\ unlocked[t] # FALSE
    /\ pc' = [pc EXCEPT ![t] = "l14"]
    /\ UNCHANGED <<victim, q2, kind, work, nrun, cycles, inside, iter, flag, counter, tmp, order, slow, nextEp, readyEp, q, next, unlocked, pred, sync, relQ, relN, relU, last>>

\* node.unlocked.load(std::memory_order_acquire); and lock() returns
Hb14(t) ==
    /\ pc[t] = "l14"
    /\ sync' = [sync EXCEPT ![t] = @ \cup relU[t]]
    /\ pc' = [pc EXCEPT ![t] = Section]
    /\ pred' = [pred EXCEPT ![t] = Null]
    /\ UNCHANGED <<victim, q2, kind, work, nrun, cycles, inside, iter, flag, counter, tmp, order, slow, nextEp, readyEp, q, next, unlocked, relQ, relN, relU, last>>

\* unlock() is called: this call replaces t's earlier one in every record;
\* then if (!node.next)  (seq_cst load)
Hb18(t) ==
    /\ pc[t] = "u18"
    /\ last' = t
    /\ relQ' = relQ \ {t}
    /\ relN' = [n \in Nodes |-> relN[n] \ {t}]
    /\ relU' = [n \in Nodes |-> relU[n] \ {t}]
    /\ sync' = [s \in Threads |->
                  IF s = t THEN sync[t] \cup {t} \cup (relN[t] \ {t})
                           ELSE sync[s] \ {t}]
    /\ pc' = [pc EXCEPT ![t] = IF next[t] = Null THEN "u20" ELSE "u26"]
    /\ UNCHANGED <<victim, q2, kind, work, nrun, cycles, inside, iter, flag, counter, tmp, order, slow, nextEp, readyEp, q, next, unlocked, pred>>

\* if (q.compare_exchange_strong(node_ptr, nullptr, std::memory_order_release)) return;
\* a release read-modify-write on success, a relaxed load on failure
Hb20(t) ==
    /\ pc[t] = "u20"
    /\ IF q = t
       THEN /\ q' = Null
            /\ relQ' = relQ \cup sync[t]
            /\ pc' = [pc EXCEPT ![t] = "l6"]
       ELSE /\ pc' = [pc EXCEPT ![t] = "u24"]
            /\ UNCHANGED <<q, relQ>>
    /\ UNCHANGED <<victim, q2, kind, work, nrun, cycles, inside, iter, flag, counter, tmp, order, slow, nextEp, readyEp, next, unlocked, pred, sync, relN, relU, last>>

\* spin_while_eq(node.next, nullptr);
Hb24(t) ==
    /\ pc[t] = "u24"
    /\ next[t] # Null
    /\ pc' = [pc EXCEPT ![t] = "u26"]
    /\ UNCHANGED <<victim, q2, kind, work, nrun, cycles, inside, iter, flag, counter, tmp, order, slow, nextEp, readyEp, q, next, unlocked, pred, sync, relQ, relN, relU, last>>

\* node.next->unlocked.store(true, std::memory_order_release); and unlock() returns
\* node.next is a seq_cst load
Hb26(t) ==
    /\ pc[t] = "u26"
    /\ next[t] # Null
    /\ unlocked' = [unlocked EXCEPT ![next[t]] = TRUE]
    /\ sync' = [sync EXCEPT ![t] = @ \cup relN[t]]
    /\ relU' = [relU EXCEPT ![next[t]] = sync[t] \cup relN[t]]
    /\ pc' = [pc EXCEPT ![t] = "l6"]
    /\ UNCHANGED <<victim, q2, kind, work, nrun, cycles, inside, iter, flag, counter, tmp, order, slow, nextEp, readyEp, q, next, pred, relQ, relN, last>>

HbStep(t) ==
    \/ Hb6(t) \/ Hb7(t) \/ Hb9(t) \/ Hb11(t) \/ Hb12(t) \/ Hb14(t)
    \/ Hb18(t) \/ Hb20(t) \/ Hb24(t) \/ Hb26(t)

HbInit ==
    /\ kind = "mcs" /\ work = "forever" /\ nrun = NThreads /\ cycles = 0
    /\ pc = [t \in Threads |-> "l6"]
    /\ Fresh
    /\ victim = Null
HbThread(t) == HbStep(t) \/ ForeverStep(t)
HbNext == \E t \in Threads : HbThread(t)
HbSpec == HbInit /\ [][HbNext]_vars

TypeOK ==
    /\ kind \in {"mcs", "spin"}
    /\ iter \in [Threads -> 0..MaxIter]
    /\ q \in Nodes \cup {Null}
    /\ next \in [Nodes -> Nodes \cup {Null}]
    /\ unlocked \in [Nodes -> BOOLEAN]
    /\ pred \in [Threads -> Nodes \cup {Null}]
    /\ flag \in BOOLEAN
    /\ nrun \in 1..NThreads
    /\ cycles \in 0..MaxIter
    /\ counter \in 0..(nrun * cycles)
    /\ inside \in 0..NThreads

(***************************************************************************)
(*                         Properties                                      *)
(***************************************************************************)
InCS(t)    == pc[t] \in {"csr", "csw", "cse", "csl"}
Holders    == {t \in Threads : InCS(t)}
AllDone    == \A t \in Threads : pc[t] = "done"
\* t took the step: every step moves the pc of the thread that takes it
Actor(t)   == pc'[t] # pc[t]
\* t has exchanged the tail and has not yet returned from lock()
Waiting(t) == pc[t] \in {"l11", "l12", "l14"}
\* the threads that wait for the lock, in the order of their tail exchanges
Arrivals   == SelectSeq(order, LAMBDA s : Waiting(s))
\* position of t in order, 0 if absent
Pos(t)     == IF \E i \in 1..Len(order) : order[i] = t
              THEN CHOOSE i \in 1..Len(order) : order[i] = t
              ELSE 0
\* s made its tail exchange immediately after t
Follows(s, t) == Pos(t) > 0 /\ Pos(s) = Pos(t) + 1

\* C1: with the MCS lock, at most one thread is between the return of lock()
\* and the call of unlock() in every reachable state.
C1_McsMutex == kind = "mcs" => Cardinality(Holders) <= 1

C1_Witness ==
    /\ kind = "mcs"
    /\ \E t, s \in Threads : InCS(t) /\ pc[s] = "l12" /\ iter[t] > 0

\* C2: with the spinlock, at most one thread is between the return of lock()
\* and the call of unlock() in every reachable state.
C2_SpinMutex == kind = "spin" => Cardinality(Holders) <= 1

C2_Witness ==
    /\ kind = "spin"
    /\ \E t, s \in Threads : InCS(t) /\ pc[s] = "s34" /\ iter[t] > 0

\* C3: FIFO admission of the MCS lock: a thread that returns from lock() is
\* the one whose tail exchange is the earliest among the threads that have
\* exchanged the tail and not yet returned from lock().
C3_Fifo ==
    [][\A t \in Threads :
          (pc[t] = "l14" /\ Actor(t)) => Head(Arrivals) = t]_vars

\* two threads wait behind the holder and the first of them has been granted the lock
C3_Witness ==
    /\ Len(Arrivals) >= 2
    /\ pc[Arrivals[1]] = "l14" /\ pred[Arrivals[1]] # Null
    /\ pc[Arrivals[2]] = "l12"

\* C5: once each of the nrun threads has finished its cycles of lock();
\* read; write counter + 1; unlock(), the counter equals nrun * cycles, with
\* either primitive.
C5_TotalWork == AllDone => counter = nrun * cycles

C5_Witness == AllDone /\ kind = "mcs" /\ nrun >= 2 /\ cycles >= 2 /\ counter = nrun * cycles

\* C10: the tail is empty exactly when no thread is between its tail
\* exchange and the end of its unlock(), and otherwise names the node of the
\* thread that exchanged the tail most recently.
C10_TailInv ==
    /\ (q = Null) <=> (order = <<>>)
    /\ q # Null => q = order[Len(order)]

C10_Witness == Len(order) >= 3 /\ q = order[Len(order)] /\ pc[order[1]] = "u24"

\* C4: release hand-off: an unlock() that read next unset and whose
\* compare-and-swap of the tail fails does not return but goes on to wait;
\* it leaves the wait only once next is set; and its final store sets ready
\* on the node of the thread that exchanged the tail immediately after it,
\* which is still waiting, and on no other node.
C4_HandOff ==
    [][\A t \in Threads :
          /\ (pc[t] = "u20" /\ Actor(t) /\ q # t) =>
                /\ pc'[t] = "u24" /\ iter'[t] = iter[t]
                /\ unlocked' = unlocked /\ t \in {order'[i] : i \in 1..Len(order')}
          /\ (pc[t] = "u24" /\ Actor(t)) => (next[t] # Null /\ pc'[t] = "u26")
          /\ (pc[t] = "u26" /\ slow[t] /\ Actor(t)) =>
                \E s \in Threads :
                   /\ Follows(s, t) /\ next[t] = s
                   /\ pc[s] = "l12" /\ ~unlocked[s] /\ unlocked'[s]
                   /\ \A n \in Nodes \ {s} : unlocked'[n] = unlocked[n]]_vars

\* the race itself: the compare-and-swap of t has failed, t is in the wait of
\* unlock(), and its successor s has exchanged the tail but not yet linked itself
C4_Witness ==
    \E t, s \in Threads :
       /\ slow[t] /\ pc[t] = "u24" /\ next[t] = Null
       /\ pc[s] = "l11" /\ pred[s] = t /\ Follows(s, t)

\* C6: node reuse: a thread leaves the wait of lock() only on a ready value
\* written in its current cycle, hands off in unlock() only to a next value
\* written in its current cycle, and between its return from unlock() and
\* the reset at the start of its next lock() no other thread writes its
\* node's next or ready.
C6_NodeReuse ==
    [][\A t \in Threads :
          /\ (pc[t] = "l12" /\ Actor(t)) => readyEp[t] = iter[t] + 1
          /\ (pc[t] = "u26" /\ Actor(t)) => nextEp[t] = iter[t] + 1
          /\ (pc[t] \in {"l6", "l7"} /\ ~Actor(t)) =>
                (next'[t] = next[t] /\ unlocked'[t] = unlocked[t])]_vars

\* a thread in its second or later cycle has waited and was woken in that cycle,
\* and another one hands off a link of its second or later cycle
C6_Witness ==
    \E t \in Threads :
       /\ iter[t] > 0 /\ pc[t] = "l14" /\ pred[t] # Null
       /\ unlocked[t] /\ readyEp[t] = iter[t] + 1

\* C9 as stated: the next field of a node is written by its owner only, and
\* the only write of another thread to a node is the predecessor's store of
\* ready in its hand-off.
C9_SingleWriter ==
    [][\A n \in Nodes :
          /\ next'[n] # next[n] => Actor(n)
          /\ (unlocked'[n] # unlocked[n] /\ ~Actor(n)) =>
                \E s \in Threads : Actor(s) /\ pc[s] = "u26" /\ next[s] = n
                                   /\ Follows(n, s) /\ unlocked'[n]]_vars

\* C9 amended: a thread other than the owner writes a node in two ways only:
\* the thread that exchanged the tail immediately after the owner links
\* itself into the owner's unset next (line 11), and the predecessor sets
\* ready in its hand-off (line 26).
C9_CrossWrites ==
    [][\A n \in Nodes :
          /\ (next'[n] # next[n] /\ ~Actor(n)) =>
                \E s \in Threads : Actor(s) /\ pc[s] = "l11" /\ pred[s] = n
                                   /\ Follows(s, n)
                                   /\ next[n] = Null /\ next'[n] = s
          /\ (unlocked'[n] # unlocked[n] /\ ~Actor(n)) =>
                \E s \in Threads : Actor(s) /\ pc[s] = "u26" /\ next[s] = n
                                   /\ Follows(n, s) /\ unlocked'[n]]_vars

\* both cross-thread writes have happened: s linked itself behind n and n's
\* predecessor has set n's ready
C9_Witness ==
    \E n, s \in Threads :
       /\ n # s /\ next[n] = s /\ pc[s] = "l12" /\ pred[s] = n
       /\ unlocked[n] /\ pred[n] # Null /\ pc[n] = "l14"

\* C7: starvation freedom of the MCS lock under weak fairness of every
\* thread: a thread that has exchanged the tail in lock() eventually returns
\* from lock(), and in no reachable state are all threads blocked.
C7_McsLive ==
    /\ \A t \in Threads : Waiting(t) ~> InCS(t)
    /\ [](ENABLED McsNext)

\* a thread that had to wait behind a predecessor is inside the section
C7_Witness == \E t \in Threads : pc[t] = "cse" /\ unlocked[t]

\* C8: bounded-workload liveness of the spinlock under weak fairness of
\* every thread: every thread that tries to acquire eventually acquires, and
\* eventually every thread has completed all of its cycles.
C8_SpinLive ==
    /\ \A t \in Threads : (pc[t] \in {"s33", "s34"}) ~> InCS(t)
    /\ <>AllDone

C8_Witness == kind = "spin" /\ AllDone /\ flag = FALSE /\ counter > 0


\* C11: queue chain: the threads between their tail exchange and the end of
\* their unlock() are pairwise distinct; a set next link of a queued node
\* names the thread that exchanged the tail immediately after it, so the
\* links from the holder's node follow the arrival order without a cycle;
\* and a queued node with an unset link is the tail node or is followed by
\* a thread that has exchanged the tail and not yet linked itself.
C11_Chain ==
    /\ \A i, j \in 1..Len(order) : order[i] = order[j] => i = j
    /\ \A i \in 1..Len(order) :
          IF next[order[i]] # Null
          THEN i < Len(order) /\ next[order[i]] = order[i + 1]
          ELSE \/ i = Len(order) /\ q = order[i]
               \/ i < Len(order) /\ pc[order[i + 1]] = "l11" /\ pred[order[i + 1]] = order[i]

\* a chain of two links starts at the node of the holder, which is inside the section
C11_Witness ==
    /\ Len(order) >= 3
    /\ next[order[1]] = order[2] /\ next[order[2]] = order[3]
    /\ InCS(order[1])

\* C12: single hand-off write: a store that sets ready is the last step of
\* the unlock() of the thread at the head of the queue, goes to the node of
\* the thread that exchanged the tail immediately after it, finds the flag
\* false (it is the first such store of the owner's cycle) and the owner in
\* the wait of lock(); no other step sets a ready flag.
C12_SingleHandOff ==
    [][/\ \A s \in Threads :
             (pc[s] = "u26" /\ Actor(s)) =>
                /\ Pos(s) = 1 /\ next[s] # Null /\ Follows(next[s], s)
                /\ pc[next[s]] = "l12" /\ ~unlocked[next[s]]
                /\ unlocked'[next[s]]
       /\ \A n \in Nodes :
             (unlocked'[n] /\ ~unlocked[n]) =>
                \E s \in Threads : Actor(s) /\ pc[s] = "u26" /\ next[s] = n]_vars

\* a waiter has been handed the lock in its second or later cycle and has not yet seen it
C12_Witness ==
    \E n \in Threads :
       /\ pc[n] = "l12" /\ unlocked[n] /\ iter[n] > 0
       /\ Len(order) >= 2 /\ order[1] = n

\* C13: with the spinlock the flag is set exactly when some thread is
\* between its successful test_and_set and its clear of the flag.
C13_FlagInv ==
    kind = "spin" => (flag <=> \E t \in Threads : InCS(t) \/ pc[t] = "s38")

\* the flag is held by a thread about to clear it while another thread backs off
C13_Witness ==
    /\ kind = "spin" /\ flag
    /\ \E t, s \in Threads : pc[t] = "s38" /\ pc[s] = "s34"

\* C14: uncontended fast paths: a tail exchange that returns empty takes
\* lock() straight to its last line, which is never blocked, and writes no
\* field of any node; a compare-and-swap of unlock() that succeeds (the
\* node has no successor) empties the tail, writes no field of any node and
\* returns.
C14_FastPaths ==
    [][\A t \in Threads :
          /\ (pc[t] = "l9" /\ Actor(t) /\ q = Null) =>
                /\ pc'[t] = "l14" /\ next' = next /\ unlocked' = unlocked
          /\ (pc[t] = "l14" /\ Actor(t) /\ pred[t] = Null) =>
                /\ InCS(t)' /\ next' = next /\ unlocked' = unlocked
          /\ (pc[t] = "u20" /\ Actor(t) /\ q = t) =>
                /\ next[t] = Null
                /\ q' = Null /\ next' = next /\ unlocked' = unlocked
                /\ pc'[t] \in {"l6", "done"}]_vars

\* a lone thread is about to return from the lock() of its second cycle
C14_Witness ==
    \E t \in Threads :
       /\ nrun = 1 /\ iter[t] > 0 /\ pc[t] = "l14" /\ pred[t] = Null /\ q = t

\* C15: unlock() of the MCS lock terminates under weak fairness of every
\* thread: a thread in unlock() eventually leaves it; and a thread is held
\* in the wait of unlock() (its next still unset) only while the thread
\* that exchanged the tail right after it is at the store that links it.
InUnlock(t) == pc[t] \in {"u18", "u20", "u24", "u26"}

Recursed(t) ==
    \/ \E i, j \in 1..Len(order) : i # j /\ order[i] = t /\ order[j] = t
    \/ pc[t] \in {"l6", "l7", "l9"} /\ Pos(t) > 0

C17_RecursiveDeadlock ==
    [][\A t \in Threads :
          Recursed(t) =>
             /\ Recursed(t)'
             /\ pc'[t] \in {"l6", "l7", "l9", "l11", "l12"}
             /\ pc'[t] = "l12" => ~unlocked'[t]]_vars

\* the holder has queued its node behind itself and waits
C17_Witness ==
    \E t \in Threads :
       Recursed(t) /\ pc[t] = "l12" /\ pred[t] = t /\ next[t] = t /\ ~unlocked[t]


\* C18: unlock() of the spinlock by a thread that does not hold it: the
\* call clears the flag and returns, whoever holds the lock, and leaves
\* every other thread where it is; and a test_and_set that finds the flag
\* clear takes its thread into the section, whoever is inside already.
C18_RogueUnlock ==
    [][\A t \in Threads :
          /\ (pc[t] = "r38" /\ Actor(t)) =>
                /\ ~flag' /\ pc'[t] = "s33"
                /\ \A h \in Threads \ {t} : pc'[h] = pc[h]
          /\ (pc[t] = "s33" /\ Actor(t) /\ pc'[t] # "r38" /\ ~flag) => InCS(t)']_vars

\* the holder is still inside its section, the flag was cleared by a
\* non-holder, and a third thread has acquired the lock
C18_Witness ==
    \E h, t, r \in Threads :
       /\ h # t /\ h # r /\ t # r
       /\ pc[h] = "csl" /\ pc[t] = "cse" /\ flag /\ pc[r] = "s33"
       /\ inside = 1


\* C16: the spinlock has no starvation bound: under the scheduler above
\* every thread, the victim included, takes steps of lock()/unlock() again
\* and again (the execution is weakly fair), the victim's test_and_set is
\* tried again and again and fails each time, the lock is released again
\* and again, and the victim never acquires it.
C16_Starvation ==
    /\ \A t \in Threads :
          pc[t] # "done" => []<><<SpinStep(t) \/ ForeverStep(t)>>_vars
    /\ []<><<S33(victim)>>_vars
    /\ [][\A t \in Threads : (t = victim /\ Actor(t) /\ pc[t] = "s33") => pc'[t] = "s34"]_vars
    /\ []<>(~flag)
    /\ [](~InCS(victim) /\ pc[victim] # "s38")

\* the lock is free while the victim backs off from a failed attempt, and
\* another thread is about to take it again
C16_Witness ==
    /\ victim # Null /\ nrun = NThreads
    /\ ~flag /\ pc[victim] = "s34"
    /\ \E t \in Threads : t # victim /\ pc[t] = "s33"


\* between the return of A.lock() and the call of A.unlock()
HoldsA(t) ==
    /\ t <= nrun
    /\ pc[t] \in {"b6", "b7", "b9", "b11", "b12", "b14", "cse", "csl",
                  "bu18", "bu20", "bu24", "bu26", "ra"}
\* between the return of B.lock() and the call of B.unlock()
HoldsB(t) == pc[t] \in {"cse", "csl"}

\* C19: with two mcs_lock objects A and B and threads that all acquire B
\* while holding A, at most one thread holds A, at most one thread holds B,
\* and some thread can always take a step (no deadlock).
C19_Independence ==
    nrun = NThreads =>
       /\ Cardinality({t \in Threads : HoldsA(t)}) <= 1
       /\ Cardinality({t \in Threads : HoldsB(t)}) <= 1
       /\ ENABLED NestNext


\* C20: every return from mcs_lock::lock() happens-after the previous
\* holder's call of unlock(): while a thread is between the return of lock()
\* and its call of unlock(), the latest call of unlock() happens-before it,
\* on the contended and on the uncontended path.
C20_Pairing ==
    \A t \in Threads : (InCS(t) /\ last # Null) => last \in sync[t]

====
